---- MODULE Spec2Model ----
(***************************************************************************)
(* Model of sample_data_generator.py: the month enumerator get_months,     *)
(* the row-synthesis loop that fills `data`, and the csv.writer block that *)
(* writes sales_data2.csv and prints the completion message.               *)
(*                                                                         *)
(* Dates are records [year, month, day] (every datetime of the script is   *)
(* at midnight).  Decimal amounts are fixed-point integers: a value        *)
(* rounded to 2 decimals is held in cents, an unrounded value in units of  *)
(* 1/1000.  random  is a deterministic generator whose only free input is  *)
(* its seed, as in the library.                                            *)
(***************************************************************************)
EXTENDS Integers, Sequences, FiniteSets, TLC

VARIABLES
    start, end,   \* the arguments of get_months
    pc,           \* the statement the script is at
    current,      \* get_months: the running date
    months,       \* the labels collected by get_months
    mi, pi,       \* positions of the loops of lines 25-26 in months and products
    rng,          \* state of the random generator
    data,         \* the dataset
    file,         \* the records written to sales_data2.csv
    wi,           \* writerows: position in data
    handle,       \* the file object of the with block: none, open, closed
    printed,      \* what was printed
    err           \* the exception that ended the run, if any

vars == <<start, end, pc, current, months, mi, pi, rng, data, file, wi, handle,
          printed, err>>

(***************************************************************************)
(* Bounds of the model.                                                    *)
(***************************************************************************)
\* get_months is applied to dates of the years 2022 .. 2022 + MaxYears (and of
\* 2000 and 2100), with end at most MaxYears calendar years after start
MaxYears == 3
\* number of seeds the generator is started from
NumSeeds == 3
\* random() yields the fractions 0/RandRes .. (RandRes-1)/RandRes
RandRes == 9000

(***************************************************************************)
(* Configuration (lines 6-8).                                              *)
(***************************************************************************)
NumProducts == 15

Date(y, m, d) == [year |-> y, month |-> m, day |-> d]

start_date == Date(2022, 1, 1)

end_date == Date(2025, 1, 1)

(***************************************************************************)
(* datetime: calendar arithmetic, comparison and strftime.                 *)
(***************************************************************************)
IsLeap(y) == y % 4 = 0 /\ (y % 100 # 0 \/ y % 400 = 0)

DaysInMonth(y, m) ==
    IF m = 2 THEN (IF IsLeap(y) THEN 29 ELSE 28)
    ELSE IF m \in {4, 6, 9, 11} THEN 30 ELSE 31

\* datetime.__lt__ : lexicographic on (year, month, day)
DateLT(a, b) ==
    \/ a.year < b.year
    \/ a.year = b.year /\ a.month < b.month
    \/ a.year = b.year /\ a.month = b.month /\ a.day < b.day

\* datetime.replace(day=d)
ReplaceDay(dt, d) == [dt EXCEPT !.day = d]

NextDay(dt) ==
    IF dt.day < DaysInMonth(dt.year, dt.month) THEN Date(dt.year, dt.month, dt.day + 1)
    ELSE IF dt.month < 12 THEN Date(dt.year, dt.month + 1, 1)
    ELSE Date(dt.year + 1, 1, 1)

RECURSIVE AddDays(_, _)
\* datetime + timedelta(days=n), n >= 0
AddDays(dt, n) == IF n = 0 THEN dt ELSE AddDays(NextDay(dt), n - 1)

DigitStr(d) ==
    CASE d = 0 -> "0" [] d = 1 -> "1" [] d = 2 -> "2" [] d = 3 -> "3"
      [] d = 4 -> "4" [] d = 5 -> "5" [] d = 6 -> "6" [] d = 7 -> "7"
      [] d = 8 -> "8" [] d = 9 -> "9"

RECURSIVE NatStr(_)
\* str(n) for an int n >= 0
NatStr(n) == IF n < 10 THEN DigitStr(n) ELSE NatStr(n \div 10) \o DigitStr(n % 10)

\* %m and %d : two digits, zero padded
Pad2(n) == DigitStr((n \div 10) % 10) \o DigitStr(n % 10)

\* %Y : four digits
Pad4(n) == Pad2(n \div 100) \o Pad2(n % 100)

\* the format "%d/%m/%Y"
StrftimeDayFirst(dt) == Pad2(dt.day) \o "/" \o Pad2(dt.month) \o "/" \o Pad4(dt.year)

\* dt.strftime("%m/%d/%Y")
Strftime(dt) == Pad2(dt.month) \o "/" \o Pad2(dt.day) \o "/" \o Pad4(dt.year)

(***************************************************************************)
(* get_months (lines 11-19).                                               *)
(***************************************************************************)
\* a loop that also takes current = end
LoopCondInclusive(cur, e) == ~DateLT(e, cur)

\* line 14: while current < end
LoopCond(cur, e) == DateLT(cur, e)

\* a step that adds 3 days instead of 4
AdvanceThreeDays(cur) == ReplaceDay(AddDays(ReplaceDay(cur, 28), 3), 1)

\* lines 17-18: advance one month
Advance(cur) == ReplaceDay(AddDays(ReplaceDay(cur, 28), 4), 1)

\* one iteration of the while loop (lines 14-18)
GetMonthsStep ==
    /\ pc = "get_months"
    /\ LoopCond(current, end)
    /\ months' = Append(months, Strftime(current))
    /\ current' = Advance(current)
    /\ UNCHANGED <<start, end, pc, mi, pi, rng, data, file, wi, handle, printed, err>>

\* the loop exits and get_months returns (lines 14, 19, 21)
GetMonthsReturn ==
    /\ pc = "get_months"
    /\ ~LoopCond(current, end)
    /\ pc' = "generate"
    /\ UNCHANGED <<start, end, current, months, mi, pi, rng, data, file, wi,
                   handle, printed, err>>

(***************************************************************************)
(* random: the generator is deterministic from its seed.  random() is the  *)
(* fraction u / RandRes of the state u, which a draw then advances.        *)
(***************************************************************************)
RandomStep(u) == (61 * u + (RandRes - 1)) % RandRes

\* seeds at both ends of the generator's range
Seeds == {(RandRes - i) % RandRes : i \in 0 .. (NumSeeds - 1)}

\* a uniform draw over a range one unit too wide
UniformOver(a, b, u) == a * 1000 + ((b - a + 1) * 1000 * u) \div RandRes

\* random.uniform(a, b) = a + (b - a) * random(), in units of 1/1000
Uniform(a, b, u) == a * 1000 + ((b - a) * 1000 * u) \div RandRes

\* random.randint(a, b) = a + randbelow(b - a + 1)
RandInt(a, b, u) == a + ((b - a + 1) * u) \div RandRes

\* round(x, 2) of x in units of 1/1000: the cents, ties to the even cent
Round2(x) ==
    LET q == x \div 10
        r == x % 10
    IN  IF r < 5 \/ (r = 5 /\ q % 2 = 0) THEN q ELSE q + 1

\* a 2-decimal value (cents) times an int, in units of 1/1000
Times(cents, n) == cents * 10 * n

(***************************************************************************)
(* Row synthesis (lines 24-30).                                            *)
(***************************************************************************)
\* line 6
products == [i \in 1..NumProducts |-> "Product " \o NatStr(i)]

\* a row whose sales is computed from the unrounded price
RowUnrounded(month, product, u1, u2) ==
    LET raw        == Uniform(5, 50, u1)
        unit_price == Round2(raw)
        quantity   == RandInt(50, 500, u2)
        sales      == Round2(raw * quantity)
    IN  [month |-> month, product |-> product, unit_price |-> unit_price,
         quantity |-> quantity, sales |-> sales]

\* lines 27-30: the row of one (month, product) pair from two draws
Row(month, product, u1, u2) ==
    LET unit_price == Round2(Uniform(5, 50, u1))
        quantity   == RandInt(50, 500, u2)
        sales      == Round2(Times(unit_price, quantity))
    IN  [month |-> month, product |-> product, unit_price |-> unit_price,
         quantity |-> quantity, sales |-> sales]

\* an inner loop that stops one product short
GenerateRowShort ==
    /\ pc = "generate"
    /\ mi <= Len(months)
    /\ data' = Append(data, Row(months[mi], products[pi], rng, RandomStep(rng)))
    /\ rng' = RandomStep(RandomStep(rng))
    /\ IF pi < NumProducts - 1
          THEN pi' = pi + 1 /\ mi' = mi
          ELSE pi' = 1 /\ mi' = mi + 1
    /\ UNCHANGED <<start, end, pc, current, months, file, wi, handle, printed, err>>

\* one iteration of the inner loop (lines 26-30), with the loops' advance
GenerateRow ==
    /\ pc = "generate"
    /\ mi <= Len(months)
    /\ data' = Append(data, Row(months[mi], products[pi], rng, RandomStep(rng)))
    /\ rng' = RandomStep(RandomStep(rng))
    /\ IF pi < NumProducts
          THEN pi' = pi + 1 /\ mi' = mi
          ELSE pi' = 1 /\ mi' = mi + 1
    /\ UNCHANGED <<start, end, pc, current, months, file, wi, handle, printed, err>>

\* the outer loop (line 25) is exhausted
GenerateDone ==
    /\ pc = "generate"
    /\ mi > Len(months)
    /\ pc' = "open"
    /\ UNCHANGED <<start, end, current, months, mi, pi, rng, data, file, wi,
                   handle, printed, err>>

(***************************************************************************)
(* The csv.writer block and the completion message (lines 33-38).  An      *)
(* element of file is one record as the writer emits it, without its line  *)
(* terminator.  No field of the script holds a comma, a quote or a line    *)
(* break, so the writer quotes nothing.                                    *)
(***************************************************************************)
RECURSIVE Join(_, _)
Join(fields, sep) ==
    IF Len(fields) = 0 THEN ""
    ELSE IF Len(fields) = 1 THEN fields[1]
    ELSE fields[1] \o sep \o Join(Tail(fields), sep)

\* a writer whose delimiter is a comma and a space
CsvRecordSpaced(fields) == Join(fields, ", ")

\* csv.writer(file).writerow(fields): default dialect, delimiter ","
CsvRecord(fields) == Join(fields, ",")

\* str(float) of a 2-decimal value held in cents: 12.0, 12.5, 12.05
FloatStr(cents) ==
    NatStr(cents \div 100) \o "." \o
        (IF cents % 10 = 0 THEN DigitStr((cents % 100) \div 10) ELSE Pad2(cents % 100))

\* line 35
HeaderFields == <<"month/year", "product name", "unit price", "quantity", "sales amount">>

\* line 30: [month, product, unit_price, quantity, sales] as the writer renders it
RowFields(r) ==
    <<r.month, r.product, FloatStr(r.unit_price), NatStr(r.quantity), FloatStr(r.sales)>>

\* line 33: open(..., "w") succeeds and truncates the file
OpenFile ==
    /\ pc = "open"
    /\ handle' = "open"
    /\ file' = <<>>
    /\ pc' = "header"
    /\ UNCHANGED <<start, end, current, months, mi, pi, rng, data, wi, printed, err>>

\* line 33: open raises; the with block is never entered
OpenFails ==
    /\ pc = "open"
    /\ err' = "OSError"
    /\ pc' = "error"
    /\ UNCHANGED <<start, end, current, months, mi, pi, rng, data, file, wi,
                   handle, printed>>

\* line 35
WriteHeader ==
    /\ pc = "header"
    /\ file' = Append(file, CsvRecord(HeaderFields))
    /\ wi' = 1
    /\ pc' = "rows"
    /\ UNCHANGED <<start, end, current, months, mi, pi, rng, data, handle,
                   printed, err>>

\* a writerows that skips every other row
WriteRowSkipping ==
    /\ pc = "rows"
    /\ wi <= Len(data)
    /\ file' = Append(file, CsvRecord(RowFields(data[wi])))
    /\ wi' = wi + 2
    /\ UNCHANGED <<start, end, pc, current, months, mi, pi, rng, data, handle,
                   printed, err>>

\* line 36: writerows writes the next row of data
WriteRow ==
    /\ pc = "rows"
    /\ wi <= Len(data)
    /\ file' = Append(file, CsvRecord(RowFields(data[wi])))
    /\ wi' = wi + 1
    /\ UNCHANGED <<start, end, pc, current, months, mi, pi, rng, data, handle,
                   printed, err>>

\* line 36: writerows has written every row
WriteRowsDone ==
    /\ pc = "rows"
    /\ wi > Len(data)
    /\ pc' = "close"
    /\ UNCHANGED <<start, end, current, months, mi, pi, rng, data, file, wi,
                   handle, printed, err>>

\* lines 35-36: a write raises inside the with block
WriteFails ==
    /\ pc = "header" \/ (pc = "rows" /\ wi <= Len(data))
    /\ err' = "OSError"
    /\ pc' = "unwind"
    /\ UNCHANGED <<start, end, current, months, mi, pi, rng, data, file, wi,
                   handle, printed>>

\* an exit of the with block that leaves the file object open
UnwindLeaking ==
    /\ pc = "unwind"
    /\ pc' = "error"
    /\ UNCHANGED <<start, end, current, months, mi, pi, rng, data, file, wi,
                   handle, printed, err>>

\* line 33: the with block exits on the exception, closes the file and
\* lets the exception end the script
Unwind ==
    /\ pc = "unwind"
    /\ handle' = "closed"
    /\ pc' = "error"
    /\ UNCHANGED <<start, end, current, months, mi, pi, rng, data, file, wi,
                   printed, err>>

\* line 36 -> 38: the with block exits normally and closes the file
CloseFile ==
    /\ pc = "close"
    /\ handle' = "closed"
    /\ pc' = "print"
    /\ UNCHANGED <<start, end, current, months, mi, pi, rng, data, file, wi,
                   printed, err>>

\* the close's flush raises: the file object is closed all the same and
\* the exception ends the script
CloseFails ==
    /\ pc = "close"
    /\ handle' = "closed"
    /\ err' = "OSError"
    /\ pc' = "error"
    /\ UNCHANGED <<start, end, current, months, mi, pi, rng, data, file, wi,
                   printed>>

\* line 38 (the message without its leading check mark)
PrintDone ==
    /\ pc = "print"
    /\ printed' = Append(printed, "sales_data.csv generated with 3 years of sample data.")
    /\ pc' = "done"
    /\ UNCHANGED <<start, end, current, months, mi, pi, rng, data, file, wi,
                   handle, err>>

(***************************************************************************)
(* The script: lines 7-8 and 21 call get_months(start_date, end_date).     *)
(***************************************************************************)
Init ==
    /\ start = start_date
    /\ end = end_date
    /\ pc = "get_months"
    /\ current = start_date
    /\ months = <<>>
    /\ mi = 1
    /\ pi = 1
    /\ rng \in Seeds
    /\ data = <<>>
    /\ file = <<>>
    /\ wi = 1
    /\ handle = "none"
    /\ printed = <<>>
    /\ err = "none"

Next ==
    \/ GetMonthsStep
    \/ GetMonthsReturn
    \/ GenerateRow
    \/ GenerateDone
    \/ OpenFile
    \/ OpenFails
    \/ WriteHeader
    \/ WriteRow
    \/ WriteRowsDone
    \/ WriteFails
    \/ Unwind
    \/ CloseFile
    \/ CloseFails
    \/ PrintDone

Spec == Init /\ [][Next]_vars

(***************************************************************************)
(* C1: get_months(2022-01-01, 2025-01-01) returns exactly 36 labels, the   *)
(* first "01/01/2022" and the last "12/01/2024".                           *)
(***************************************************************************)
C1_ThirtySixMonths ==
    (pc # "get_months" /\ start = Date(2022, 1, 1) /\ end = Date(2025, 1, 1)) =>
        /\ Len(months) = 36
        /\ months[1] = "01/01/2022"
        /\ months[36] = "12/01/2024"

C1_Witness ==
    /\ pc = "generate"
    /\ start = Date(2022, 1, 1)
    /\ end = Date(2025, 1, 1)
    /\ current = Date(2025, 1, 1)
    /\ Len(months) = 36
    /\ data = <<>>

(***************************************************************************)
(* C3: when the row-synthesis loop has finished, the dataset holds         *)
(* (number of labels) x 15 rows, exactly one for each (month label,        *)
(* product name) pair, none missing and none twice.                        *)
(***************************************************************************)
SynthesisFinished == pc \notin {"get_months", "generate"}

DataPairs == {<<data[i].month, data[i].product>> : i \in 1..Len(data)}

AllPairs ==
    {<<months[i], "Product " \o NatStr(k)>> : i \in 1..Len(months), k \in 1..15}

C3_OneRowPerPair ==
    SynthesisFinished =>
        /\ Len(data) = Len(months) * 15
        /\ DataPairs = AllPairs
        /\ Cardinality(DataPairs) = Len(data)

C3_Witness ==
    /\ pc = "open"
    /\ Len(months) = 36
    /\ Len(data) = 540
    /\ data[540].month = "12/01/2024"
    /\ data[540].product = "Product 15"

(***************************************************************************)
(* C4: the first line of the output file is the header.  As the claim      *)
(* words it, the five column names are separated by a comma and a space.   *)
(***************************************************************************)
C4_HeaderCommaSpace ==
    Len(file) >= 1 =>
        file[1] = "month/year, product name, unit price, quantity, sales amount"

\* C4 as amended: the five column names in that order, separated by a
\* single comma with no space.
C4_HeaderComma ==
    Len(file) >= 1 =>
        file[1] = "month/year,product name,unit price,quantity,sales amount"

C4_Witness ==
    /\ pc = "rows"
    /\ handle = "open"
    /\ Len(file) = 1
    /\ file[1] = CsvRecord(HeaderFields)

(***************************************************************************)
(* C5: the dataset is ordered months-outer / products-inner (Product 1 ..  *)
(* Product 15 of month k precede every row of month k+1), and after a      *)
(* successful write the file is the header followed by one line per        *)
(* dataset row in that order: 1 + row count lines.                         *)
(***************************************************************************)
WriteSucceeded == pc \in {"print", "done"}

C5_Order ==
    /\ \A i \in 1..Len(data) :
          /\ data[i].month = months[((i - 1) \div 15) + 1]
          /\ data[i].product = "Product " \o NatStr(((i - 1) % 15) + 1)
    /\ WriteSucceeded =>
          /\ Len(file) = 1 + Len(data)
          /\ file[1] = CsvRecord(HeaderFields)
          /\ \A i \in 1..Len(data) : file[i + 1] = CsvRecord(RowFields(data[i]))

C5_Witness ==
    /\ pc = "done"
    /\ Len(data) = 540
    /\ Len(file) = 541
    /\ data[15].month = "01/01/2022" /\ data[15].product = "Product 15"
    /\ data[16].month = "02/01/2022" /\ data[16].product = "Product 1"

(***************************************************************************)
(* C6: every row of the dataset has sales = round(unit_price * quantity,   *)
(* 2) for its own unit_price and quantity (prices in cents), and no later  *)
(* step changes a row.                                                     *)
(***************************************************************************)
C6_SalesOfRow ==
    \A i \in 1..Len(data) :
        /\ data[i].sales = Round2(Times(data[i].unit_price, data[i].quantity))
        /\ data[i].sales = data[i].unit_price * data[i].quantity

C6_RowsKept ==
    /\ Len(data') >= Len(data)
    /\ \A i \in 1..Len(data) : data'[i] = data[i]

C6_SalesRounded == [](C6_SalesOfRow) /\ [][C6_RowsKept]_vars

\* seed 0: the first row has the lowest price and the highest quantity
C6_Witness ==
    /\ pc = "done"
    /\ Len(data) = 540
    /\ data[1].unit_price = 500
    /\ data[1].quantity = 500
    /\ data[1].sales = 250000
    /\ \E i \in 1..Len(data) : data[i].unit_price % 100 # 0

(***************************************************************************)
(* C7: every row of the dataset has 5.00 <= unit_price <= 50.00 and        *)
(* 50 <= quantity <= 500, bounds included.                                 *)
(***************************************************************************)
C7_Ranges ==
    \A i \in 1..Len(data) :
        /\ 500 <= data[i].unit_price /\ data[i].unit_price <= 5000
        /\ 50 <= data[i].quantity /\ data[i].quantity <= 500

\* the upper price bound and the lower quantity bound are both drawn
C7_Witness ==
    /\ \E i \in 1..Len(data) : data[i].unit_price = 5000
    /\ \E i \in 1..Len(data) : data[i].quantity = 50

(***************************************************************************)
(* C9: the completion message is printed only after the file was opened    *)
(* and the header and every row were written; when opening or writing      *)
(* fails the run ends with that error: no message, no retry, and the file  *)
(* handle is released.                                                     *)
(***************************************************************************)
C9_State ==
    /\ printed # <<>> =>
          /\ pc = "done" /\ err = "none" /\ handle = "closed"
          /\ Len(printed) = 1
          /\ Len(file) = 1 + Len(data)
          /\ file[1] = CsvRecord(HeaderFields)
          /\ \A i \in 1..Len(data) : file[i + 1] = CsvRecord(RowFields(data[i]))
    /\ err # "none" => printed = <<>> /\ pc \in {"unwind", "error"}
    /\ pc = "error" => err # "none" /\ handle # "open"

C9_NoRetry ==
    err # "none" =>
        /\ pc = "unwind" /\ pc' = "error"
        /\ err' = err /\ file' = file /\ printed' = printed /\ data' = data
        /\ handle' = "closed"

C9_FatalIOError == [](C9_State) /\ [][C9_NoRetry]_vars

\* the third write fails: the run has ended, the handle is released
C9_Witness ==
    /\ pc = "error"
    /\ err = "OSError"
    /\ handle = "closed"
    /\ Len(file) = 3
    /\ printed = <<>>

(***************************************************************************)
(* get_months as a function of its arguments.                              *)
(***************************************************************************)
\* the years from the configured start on, a leap century year and a
\* century year that is not leap
Years == (start_date.year .. (start_date.year + MaxYears)) \cup {2000, 2100}

\* the first, a middle and the last days of every month of those years
StartDates ==
    {dt \in {Date(y, m, d) : y \in Years, m \in 1..12, d \in {1, 15, 28, 29, 30, 31}} :
        dt.day <= DaysInMonth(dt.year, dt.month)}

\* the first and the sixteenth of every month of those years
EndDates == {Date(y, m, d) : y \in Years, m \in 1..12, d \in {1, 16}}

InitMonths ==
    /\ start \in StartDates
    /\ end \in {e \in EndDates : e.year - start.year <= MaxYears}
    /\ pc = "get_months"
    /\ current = start
    /\ months = <<>>
    /\ mi = 1
    /\ pi = 1
    /\ rng = 0
    /\ data = <<>>
    /\ file = <<>>
    /\ wi = 1
    /\ handle = "none"
    /\ printed = <<>>
    /\ err = "none"

NextMonths == GetMonthsStep \/ GetMonthsReturn

SpecMonths == InitMonths /\ [][NextMonths]_vars

(***************************************************************************)
(* The calendar, stated without the day-28 step: months counted from year  *)
(* 0, and the k-th running date of a call.                                 *)
(***************************************************************************)
MonthIndex(dt) == dt.year * 12 + (dt.month - 1)

FirstOfMonth(n) == Date(n \div 12, (n % 12) + 1, 1)

FirstOfNextMonth(dt) == FirstOfMonth(MonthIndex(dt) + 1)

RunningDate(k) == IF k = 0 THEN start ELSE FirstOfMonth(MonthIndex(start) + k)

\* the running dates of a call that are strictly before end
RunningBeforeEnd ==
    {k \in 0 .. (12 * (MaxYears + 2)) : DateLT(RunningDate(k), end)}

FirstOfMonthLabels ==
    {Strftime(Date(y, m, 1)) : y \in Years, m \in 1..12}

Returned == pc = "generate"

(***************************************************************************)
(* C2: whatever the start date (any day of the month) and the end date,    *)
(* every label get_months returns is a first-of-month date (DD = 01).      *)
(***************************************************************************)
C2_AllLabelsFirstOfMonth ==
    \A i \in 1..Len(months) : months[i] \in FirstOfMonthLabels

C10_StepLands ==
    months' # months =>
        /\ current' = FirstOfNextMonth(current)
        /\ DateLT(current, current')
        /\ MonthIndex(current') = MonthIndex(current) + 1

C10_ConsecutiveLabels ==
    /\ \A i \in 1..Len(months) : months[i] = Strftime(RunningDate(i - 1))
    /\ MonthIndex(current) = MonthIndex(start) + Len(months)

====
